---- MODULE Spec2Model ----
(***************************************************************************)
(* Refresh-and-query coordination of swagger-navigator-mcp (src/index.ts). *)
(*                                                                         *)
(* Node.js runs one macrotask (timer callback, fs.watch callback, I/O      *)
(* completion, incoming tool call) at a time and drains the microtask      *)
(* queue before the next one.  An action of this model is one such         *)
(* macrotask: the code of a handler from its entry (or from the            *)
(* resumption of an await on I/O) to its next await on I/O.  A tool call   *)
(* that was suspended on refreshPromise resumes in a microtask; it is a    *)
(* step of its own that runs before any further macrotask.                 *)
(***************************************************************************)
EXTENDS Integers, Sequences, FiniteSets, TLC

\* ---- bounds ------------------------------------------------------------
MaxPasses  == 2   \* refresh passes started after startup (timer + config)
MaxReaders == 2   \* tool calls that can be in progress at once
MaxSources == 3   \* sources of a configuration handed to parseAllSources directly
MaxOffset  == 8   \* largest offset of a list_endpoints_for_source request
MaxWords == 2      \* words in the message of a thrown error
MaxTokens == 3     \* pieces the text given to substituteEnvVars is made of
MaxSmallLimit == 4 \* the limits 1 .. MaxSmallLimit are requested, and MaxLimit

\* inputSchema of list_endpoints_for_source: limit: z.number().min(1).max(100)
MinLimit == 1
MaxLimit == 100

PassIds   == 0 .. MaxPasses          \* 0 is the ingestion pass of main()
ReaderIds == 1 .. MaxReaders

\* ---- configuration -----------------------------------------------------
NoConfig == [sources |-> << >>, refreshInterval |-> 0, fuzzyThreshold |-> 0]

\* the configurations the config file can hold (fuzzyThreshold in tenths)
Configs ==
  { [sources |-> <<"a", "b">>, refreshInterval |-> 300, fuzzyThreshold |-> 6],
    [sources |-> <<"b">>, refreshInterval |-> 600, fuzzyThreshold |-> 4] }

\* what the configuration file can hold when it is read: a valid
\* configuration, a source list with a name that occurs twice, or no source
ConfigFiles ==
  Configs \cup
  { [sources |-> <<"a", "b", "a">>, refreshInterval |-> 300, fuzzyThreshold |-> 6],
    [sources |-> << >>, refreshInterval |-> 300, fuzzyThreshold |-> 6] }

\* variant: the source names are not compared
validateConfigSchemaOnly(raw) ==
  IF Len(raw.sources) < 1
  THEN [ok |-> FALSE, cfg |-> NoConfig, error |-> "schema"]
  ELSE [ok |-> TRUE, cfg |-> raw, error |-> "none"]

\* validateConfig: configSchema.parse (at least one source), then the source
\* names must be pairwise different; a failure is an exception
validateConfig(raw) ==
  IF Len(raw.sources) < 1
  THEN [ok |-> FALSE, cfg |-> NoConfig, error |-> "schema"]
  ELSE IF Len(raw.sources) # Cardinality({ raw.sources[i] : i \in 1 .. Len(raw.sources) })
  THEN [ok |-> FALSE, cfg |-> NoConfig, error |-> "duplicate"]
  ELSE [ok |-> TRUE, cfg |-> raw, error |-> "none"]

\* getConfig(): the validated configuration of the file, or an exception
\* (the file is missing, or validateConfig threw)
getConfig ==
  { validateConfig(raw) : raw \in ConfigFiles }
    \cup { [ok |-> FALSE, cfg |-> NoConfig, error |-> "notFound"] }

\* loadConfig(): getConfig() with the exception logged and turned into null
loadConfig == { [isNull |-> ~g.ok, cfg |-> g.cfg, error |-> g.error] : g \in getConfig }

\* ---- documents and parse results --------------------------------------
\* the endpoints the document of a source holds; rev is the ingestion pass
\* that fetched the document (the document may differ from fetch to fetch)
Doc(name, rev) ==
  CASE name = "a" -> << [path |-> "/a1", method |-> "GET", rev |-> rev],
                        [path |-> "/a2", method |-> "POST", rev |-> rev] >>
    [] name = "b" -> << [path |-> "/b1", method |-> "GET", rev |-> rev] >>
    [] name = "c" -> << [path |-> "/c1", method |-> "GET", rev |-> rev],
                        [path |-> "/c2", method |-> "PUT", rev |-> rev],
                        [path |-> "/c3", method |-> "DELETE", rev |-> rev],
                        [path |-> "/c4", method |-> "GET", rev |-> rev],
                        [path |-> "/c5", method |-> "POST", rev |-> rev],
                        [path |-> "/c6", method |-> "PATCH", rev |-> rev],
                        [path |-> "/c7", method |-> "HEAD", rev |-> rev] >>
    [] OTHER      -> << [path |-> "/c1", method |-> "GET", rev |-> rev],
                        [path |-> "/c2", method |-> "PUT", rev |-> rev],
                        [path |-> "/c3", method |-> "DELETE", rev |-> rev] >>

NoSpec == [sourceName |-> "", endpoints |-> << >>, rev |-> -1]

\* what `await parser.parse(source)` can deliver; rev on a result names the
\* ingestion pass that obtained it
ParseOutcomes == {"ok", "failed"}

\* SwaggerParserModule.parse: a success result or a failed result
parse(name, rev, how) ==
  IF how = "ok"
  THEN [success |-> TRUE, hasSpec |-> TRUE,
        spec |-> [sourceName |-> name, endpoints |-> Doc(name, rev), rev |-> rev],
        errors |-> << >>, rev |-> rev]
  ELSE [success |-> FALSE, hasSpec |-> FALSE, spec |-> NoSpec,
        errors |-> << [code |-> "NETWORK_ERROR", details |-> "unreachable",
                       source |-> name] >>, rev |-> rev]

\* ---- SwaggerParserModule: a failed parse ------------------------------
\* The message of a thrown value is the sequence of its words.  Fragments
\* gives, for a word, the markers createParseError looks for that are
\* substrings of it (String.prototype.includes is case-sensitive).
Markers == {"ENOENT", "Circular", "Network", "HTTP", "valid", "schema"}

Words == {"ENOENT", "Circular", "Network", "network", "HTTP", "Invalid",
          "schema", "Not", "Found", "timeout"}

Fragments(word) ==
  CASE word = "ENOENT" -> {"ENOENT"}
    [] word = "Circular" -> {"Circular"}
    [] word = "Network" -> {"Network"}
    [] word = "HTTP" -> {"HTTP"}
    [] word = "Invalid" -> {"valid"}
    [] word = "schema" -> {"schema"}
    [] OTHER -> {}

\* error.message?.includes(marker)
includes(message, marker) ==
  \E i \in 1 .. Len(message) : marker \in Fragments(message[i])

Messages == UNION { [1 .. n -> Words] : n \in 0 .. MaxWords }

\* what a catch block can receive: an Error with a message, or any other value
NoThrown == [isError |-> FALSE, message |-> << >>]

ThrownValues == [isError : BOOLEAN, message : Messages]

createParseError(error, source) ==
  [code |-> IF error.isError
            THEN IF includes(error.message, "ENOENT") THEN "FILE_NOT_FOUND"
                 ELSE IF includes(error.message, "Circular") THEN "CIRCULAR_REFERENCE"
                 ELSE IF includes(error.message, "Network")
                           \/ includes(error.message, "HTTP") THEN "NETWORK_ERROR"
                 ELSE IF includes(error.message, "valid")
                           \/ includes(error.message, "schema") THEN "INVALID_FORMAT"
                 ELSE "UNKNOWN"
            ELSE "UNKNOWN",
   source |-> source,
   details |-> error]

\* the outcomes of axios.get: a response (any status, with the status text
\* the server sent), no response within the timeout, a request that could
\* not be set up, or a value thrown that is not an axios error
NoFetch == [kind |-> "none", status |-> 0, statusText |-> << >>, error |-> NoThrown]

Statuses == {200, 400, 404, 500}

statusWord(status) ==
  CASE status = 200 -> "200:"
    [] status = 400 -> "400:"
    [] status = 404 -> "404:"
    [] status = 500 -> "500:"

AxiosOutcomes ==
  { [NoFetch EXCEPT !.kind = "response", !.status = st, !.statusText = m] :
      st \in Statuses \ {200}, m \in Messages }
  \cup { [NoFetch EXCEPT !.kind = "response", !.status = 200] }
  \cup { [NoFetch EXCEPT !.kind = "request"] }
  \cup { [NoFetch EXCEPT !.kind = "setup", !.error = [isError |-> TRUE, message |-> m]] :
           m \in Messages }
  \cup { [NoFetch EXCEPT !.kind = "other", !.error = e] : e \in ThrownValues }

\* validateStatus: (status) => status < 400
validateStatus(status) == status < 400

\* fetchHttpContent: what it throws, if it throws
fetchHttpContent(outcome) ==
  IF outcome.kind = "response" /\ validateStatus(outcome.status)
  THEN [threw |-> FALSE, error |-> NoThrown]
  ELSE [threw |-> TRUE,
        error |->
          [isError |-> TRUE,
           message |->
             CASE outcome.kind = "response" ->
                    <<"HTTP", statusWord(outcome.status)>> \o outcome.statusText
               [] outcome.kind = "request" ->
                    <<"Network", "error:", "No", "response", "received">>
               [] outcome.kind = "setup" ->
                    <<"Request", "error:">> \o outcome.error.message
               [] OTHER ->
                    <<"Request", "error:">>
                      \o (IF outcome.error.isError THEN outcome.error.message
                          ELSE <<"Unknown", "error">>)]]

\* what SwaggerParser.validate does with the document: "ok", or a throw
NoValidate == [threw |-> FALSE, error |-> NoThrown]

ValidateOutcomes ==
  {NoValidate} \cup { [threw |-> TRUE, error |-> e] : e \in ThrownValues }

NoParseResult == [success |-> TRUE, errors |-> << >>, caught |-> NoThrown]

\* SwaggerParserModule.parse, as far as failures go: the value its catch
\* block received is kept in "caught"
parseSource(source, fetch, validate) ==
  LET fetched == IF source.type = "file" THEN [threw |-> FALSE, error |-> NoThrown]
                 ELSE fetchHttpContent(fetch)
      caught == IF fetched.threw THEN fetched
                ELSE validate
  IN IF caught.threw
     THEN [success |-> FALSE,
           errors |-> << createParseError(caught.error, source.name) >>,
           caught |-> caught.error]
     ELSE NoParseResult

\* ---- substituteEnvVars -------------------------------------------------
\* A string is the sequence of its characters.
RECURSIVE Flatten(_)
Flatten(pieces) ==
  IF pieces = << >> THEN << >> ELSE Head(pieces) \o Flatten(Tail(pieces))

\* process.env: the variables A and B may be set, nothing else is
EnvNames == {"A", "B"}

Unset == [defined |-> FALSE, value |-> << >>]

Set(value) == [defined |-> TRUE, value |-> value]

Envs ==
  { [n \in EnvNames |-> IF n = "A" THEN a ELSE b] :
      a \in {Unset, Set(<< >>), Set(<<"v">>), Set(<<"$", "{", "B", "}">>)},
      b \in {Unset, Set(<< >>), Set(<<"w">>)} }

\* process.env[varName]
processEnv(env, varName) ==
  IF Len(varName) = 1 /\ varName[1] \in DOMAIN env THEN env[varName[1]] ELSE Unset

\* the texts: up to MaxTokens pieces, each a character or a placeholder
Tokens == { <<"x">>, <<"$">>, <<"{">>, <<"}">>,
            <<"$", "{", "A", "}">>, <<"$", "{", "B", "}">>, <<"$", "{", "C", "}">> }

Inputs == { Flatten(ts) : ts \in UNION { [1 .. n -> Tokens] : n \in 0 .. MaxTokens } }

\* /\${([^}]+)}/ tried at position i: the position of the closing brace of
\* the match, or 0 when the pattern does not match there
matchEnd(input, i) ==
  IF /\ i + 3 <= Len(input)
     /\ input[i] = "$"
     /\ input[i + 1] = "{"
     /\ input[i + 2] # "}"
     /\ \E j \in i + 3 .. Len(input) : input[j] = "}"
  THEN CHOOSE j \in i + 3 .. Len(input) :
         /\ input[j] = "}"
         /\ \A k \in i + 3 .. j - 1 : input[k] # "}"
  ELSE 0

\* variant: an unset variable is replaced by the empty string
replacementEmptyWhenUnset(match, value) ==
  IF value.defined THEN value.value ELSE << >>

\* the replacer callback, given the match and process.env[varName]
replacement(match, value) ==
  IF ~value.defined THEN match ELSE value.value

\* String.prototype.replace with the global pattern, from position i on
RECURSIVE replaceFrom(_, _, _)
replaceFrom(input, env, i) ==
  IF i > Len(input) THEN << >>
  ELSE LET j == matchEnd(input, i) IN
       IF j = 0
       THEN << input[i] >> \o replaceFrom(input, env, i + 1)
       ELSE replacement(SubSeq(input, i, j),
                        processEnv(env, SubSeq(input, i + 2, j - 1)))
              \o replaceFrom(input, env, j + 1)

substituteEnvVars(input, env) == replaceFrom(input, env, 1)

\* ---- JS Map: insertion-ordered key/value pairs -------------------------
EmptyMap == << >>

MapHas(m, k) == \E i \in 1 .. Len(m) : m[i].key = k

MapGet(m, k) == m[CHOOSE i \in 1 .. Len(m) : m[i].key = k].value

MapSet(m, k, v) ==
  IF MapHas(m, k)
  THEN [i \in 1 .. Len(m) |-> IF m[i].key = k THEN [key |-> k, value |-> v] ELSE m[i]]
  ELSE Append(m, [key |-> k, value |-> v])

MapKeys(m) == { m[i].key : i \in 1 .. Len(m) }

\* target.set(key, value) for every entry of src, in src order
RECURSIVE MapSetAll(_, _)
MapSetAll(target, src) ==
  IF src = << >> THEN target
  ELSE MapSetAll(MapSet(target, Head(src).key, Head(src).value), Tail(src))

\* ---- parseAllSources: the body of one loop iteration -------------------
\* variant: the catch block records no error
sourceEntryDropsException(name, rev, how) ==
  IF how = "threw"
  THEN [success |-> FALSE, hasSpec |-> FALSE, spec |-> NoSpec, errors |-> << >>,
        rev |-> rev]
  ELSE LET parseResult == parse(name, rev, how) IN
       IF parseResult.success /\ parseResult.hasSpec
       THEN parseResult
       ELSE [success |-> FALSE, hasSpec |-> FALSE, spec |-> NoSpec,
             errors |-> parseResult.errors, rev |-> rev]

\* the entry newParsedSpecs gets for a source, per outcome of parser.parse
sourceEntry(name, rev, how) ==
  IF how = "threw"
  THEN [success |-> FALSE, hasSpec |-> FALSE, spec |-> NoSpec,
        errors |-> << [code |-> "UNKNOWN", details |-> "exception", source |-> name] >>,
        rev |-> rev]
  ELSE LET parseResult == parse(name, rev, how) IN
       IF parseResult.success /\ parseResult.hasSpec
       THEN parseResult
       ELSE [success |-> FALSE, hasSpec |-> FALSE, spec |-> NoSpec,
             errors |-> parseResult.errors, rev |-> rev]

\* ---- createFuseIndex ---------------------------------------------------
\* variant: the endpoints of a source are tagged with the fallback name
RECURSIVE flatMapEndpointsUntagged(_)
flatMapEndpointsUntagged(specs) ==
  IF specs = << >> THEN << >>
  ELSE LET v == Head(specs).value
           tagged == IF v.hasSpec
                     THEN [i \in 1 .. Len(v.spec.endpoints) |->
                             [path |-> v.spec.endpoints[i].path,
                              method |-> v.spec.endpoints[i].method,
                              rev |-> v.spec.endpoints[i].rev,
                              source_name |-> "Unknown"]]
                     ELSE << >>
       IN tagged \o flatMapEndpointsUntagged(Tail(specs))

RECURSIVE flatMapEndpoints(_)
flatMapEndpoints(specs) ==
  IF specs = << >> THEN << >>
  ELSE LET v == Head(specs).value
           tagged == IF v.hasSpec
                     THEN [i \in 1 .. Len(v.spec.endpoints) |->
                             [path |-> v.spec.endpoints[i].path,
                              method |-> v.spec.endpoints[i].method,
                              rev |-> v.spec.endpoints[i].rev,
                              source_name |-> v.spec.sourceName]]
                     ELSE << >>
       IN tagged \o flatMapEndpoints(Tail(specs))

\* variant: the index is built without the entry set first
createFuseIndexPartial(specs, cfg) ==
  [endpoints |-> flatMapEndpoints(Tail(specs)),
   fuse |-> [docs |-> flatMapEndpoints(Tail(specs)), threshold |-> cfg.fuzzyThreshold]]

createFuseIndex(specs, cfg) ==
  [endpoints |-> flatMapEndpoints(specs),
   fuse |-> [docs |-> flatMapEndpoints(specs), threshold |-> cfg.fuzzyThreshold]]

NoFuse == [docs |-> << >>, threshold |-> -1]

\* ---- the tool handlers, from the read of parsedSpecs to the result -------
NoRequest == [name |-> "", limit |-> 0, offset |-> 0]

NoPagination == [total |-> 0, limit |-> 0, offset |-> 0,
                 hasNext |-> FALSE, hasPrevious |-> FALSE]

\* a tool result; error "" is a result without an error text
NoResponse == [isError |-> FALSE, error |-> "", name |-> "", detail |-> "",
               sources |-> << >>, endpoints |-> << >>,
               pagination |-> NoPagination]

\* parsedSpecs.forEach: an entry is pushed for every value with success set;
\* the description is looked up in config.sources, "Unknown" when not found
RECURSIVE pushSuccessful(_, _)
pushSuccessful(specs, cfg) ==
  IF specs = << >> THEN << >>
  ELSE LET key == Head(specs).key
           value == Head(specs).value
           found == \E i \in 1 .. Len(cfg.sources) : cfg.sources[i] = key
       IN (IF value.success
           THEN << [name |-> key,
                    description |-> IF found THEN key ELSE "Unknown"] >>
           ELSE << >>) \o pushSuccessful(Tail(specs), cfg)

\* variant: an entry is pushed for every value
list_all_sourcesUnfiltered(specs, cfg) ==
  [NoResponse EXCEPT !.sources =
     [i \in 1 .. Len(specs) |-> [name |-> specs[i].key, description |-> specs[i].key]]]

\* the list_all_sources handler
list_all_sources(specs, cfg) ==
  LET sources == pushSuccessful(specs, cfg)
  IN IF Len(sources) = 0
     THEN [NoResponse EXCEPT !.isError = TRUE, !.error = "No sources found"]
     ELSE [NoResponse EXCEPT !.sources = sources]

\* variant: Array.prototype.slice with the end index included
sliceInclusive(arr, start, end) ==
  SubSeq(arr, start + 1, IF end + 1 < Len(arr) THEN end + 1 ELSE Len(arr))

\* Array.prototype.slice(start, end) for integers 0 <= start <= end
slice(arr, start, end) ==
  SubSeq(arr, start + 1, IF end < Len(arr) THEN end ELSE Len(arr))

\* variant: the detail recorded on the entry is not read
errorDetailsGeneric(source) == "Unknown parsing error"

\* source.errors?.[0]?.details || "Unknown parsing error"
errorDetails(source) ==
  IF Len(source.errors) > 0 /\ source.errors[1].details # ""
  THEN source.errors[1].details
  ELSE "Unknown parsing error"

\* variant: a further page is announced when the page ends at the last endpoint
pageOfHasNextInclusive(endpoints, request) ==
  [NoResponse EXCEPT
     !.endpoints = slice(endpoints, request.offset, request.offset + request.limit),
     !.pagination = [total |-> Len(endpoints),
                     limit |-> request.limit,
                     offset |-> request.offset,
                     hasNext |-> request.offset + request.limit <= Len(endpoints),
                     hasPrevious |-> request.offset > 0]]

\* the result for a source with a specification: the page and its pagination
pageOf(endpoints, request) ==
  [NoResponse EXCEPT
     !.endpoints = slice(endpoints, request.offset, request.offset + request.limit),
     !.pagination = [total |-> Len(endpoints),
                     limit |-> request.limit,
                     offset |-> request.offset,
                     hasNext |-> request.offset + request.limit < Len(endpoints),
                     hasPrevious |-> request.offset > 0]]

\* variant: a source that failed to parse is paged like any other
list_endpoints_for_sourceUnchecked(specs, request) ==
  IF ~MapHas(specs, request.name)
  THEN [NoResponse EXCEPT !.isError = TRUE, !.error = "not found",
                          !.name = request.name]
  ELSE pageOf(MapGet(specs, request.name).spec.endpoints, request)

\* the list_endpoints_for_source handler; the error texts are
\* "Source '<name>' not found" and "Source '<name>' failed to parse - <detail>"
list_endpoints_for_source(specs, request) ==
  IF ~MapHas(specs, request.name)
  THEN [NoResponse EXCEPT !.isError = TRUE, !.error = "not found",
                          !.name = request.name]
  ELSE LET source == MapGet(specs, request.name)
       IN IF ~source.success \/ ~source.hasSpec
          THEN [NoResponse EXCEPT !.isError = TRUE, !.error = "failed to parse",
                                  !.name = request.name,
                                  !.detail = errorDetails(source)]
          ELSE pageOf(source.spec.endpoints, request)

\* ---- state -------------------------------------------------------------
VARIABLES
  phase,          \* "init" | "starting" | "running" | "exited": where main() is
  exitCode,       \* status of process.exit, -1 while the process lives
  config,         \* let config
  parsedSpecs,    \* const parsedSpecs = new Map()
  allEndpoints,   \* let allEndpoints
  fuseEndpoints,  \* let fuseEndpoints
  isRefreshing,   \* let isRefreshing
  refreshPromise, \* let refreshPromise: the id of the promise it holds
  unresolved,     \* the promises created and not yet resolved
  started,        \* executions of refreshSources / handleConfigChange so far
  pass,           \* the frames of the passes suspended in parseAllSources
  finished,       \* the pass that ended in the latest macrotask, if one did:
                  \* what its parseAllSources returned and how it ended
                  \* (error: the configuration error loadConfig logged); or
                  \* the pass handleConfigChange began in it ("reloaded"), with
                  \* its locals newConfig (loaded) and oldRefreshInterval
  pendingChange,  \* setTimeout(..., 100) callbacks of the watcher not yet run
  windowCalls,    \* handleConfigChange calls made for the current burst of
                  \* notifications (each arrived while an earlier one was
                  \* pending); the burst is over once no timeout is pending
  ingestSinceIdle,\* parseAllSources executions begun since isRefreshing was last false
  configWatcher,  \* whether configWatcher is armed
  refreshTimer,   \* let refreshTimer: the id of the interval it holds, 0 for null
  timers,         \* the interval timers alive in the runtime: [id, period]
  reader,         \* the tool calls in progress; early: it read while a pass
                  \* that was in flight when it arrived was still in flight
  parsedSpecsRef, \* the Map object the binding parsedSpecs holds: 0 is the
                  \* Map made at module load, p + 1 the newParsedSpecs of pass p
  probe           \* the latest direct call of a function of the module, with
                  \* its arguments and its result (see the unit specification)

procVars  == << phase, exitCode >>
pubVars   == << parsedSpecs, allEndpoints, fuseEndpoints >>
lockVars  == << isRefreshing, refreshPromise, unresolved >>
timerVars == << refreshTimer, timers >>

\* the state of the running server
serverVars == << procVars, config, pubVars, lockVars, started, pass, finished,
                 pendingChange, windowCalls, ingestSinceIdle, configWatcher,
                 timerVars, reader, parsedSpecsRef >>

vars == << serverVars, probe >>

Published == [specs |-> parsedSpecs, endpoints |-> allEndpoints, fuse |-> fuseEndpoints]

NoPublished == [specs |-> EmptyMap, endpoints |-> << >>, fuse |-> NoFuse]

NoPass == [pc |-> "none", sources |-> << >>, idx |-> 0,
           newParsedSpecs |-> EmptyMap, successCount |-> 0, errorCount |-> 0,
           overwritten |-> FALSE]

NoFinished == [id |-> -1, successCount |-> 0, errorCount |-> 0,
               outcome |-> "none", error |-> "none",
               loaded |-> NoConfig, oldRefreshInterval |-> 0]

NoReader == [pc |-> "idle", on |-> -1, early |-> FALSE, answer |-> NoPublished]

NoProbe == [op |-> "none", sources |-> << >>, hows |-> << >>,
            result |-> [successCount |-> 0, errorCount |-> 0,
                        newParsedSpecs |-> EmptyMap],
            request |-> NoRequest, response |-> NoResponse,
            source |-> [name |-> "none", type |-> "none"],
            fetch |-> NoFetch, validate |-> NoValidate,
            parseResult |-> NoParseResult,
            input |-> << >>, env |-> [n \in EnvNames |-> Unset], output |-> << >>,
            pages |-> << >>]

InFlight == { p \in PassIds : pass[p].pc = "parsing" }

\* a continuation of a tool call is queued (its promise was resolved, or its
\* result is being returned): it runs before any further macrotask
MicrotaskPending == \E r \in ReaderIds : reader[r].pc \in {"released", "done"}

Init ==
  /\ phase = "init"
  /\ exitCode = -1
  /\ config = NoConfig
  /\ parsedSpecs = EmptyMap
  /\ allEndpoints = << >>
  /\ fuseEndpoints = NoFuse
  /\ isRefreshing = FALSE
  /\ refreshPromise = 0
  /\ unresolved = {}
  /\ started = 0
  /\ pass = [p \in PassIds |-> NoPass]
  /\ finished = NoFinished
  /\ pendingChange = 0
  /\ windowCalls = 0
  /\ ingestSinceIdle = 0
  /\ configWatcher = FALSE
  /\ refreshTimer = 0
  /\ timers = {}
  /\ reader = [r \in ReaderIds |-> NoReader]
  /\ parsedSpecsRef = 0
  /\ probe = NoProbe

\* process.exit(code): the process and all its state are gone
Exited(code) ==
  /\ phase' = "exited"
  /\ exitCode' = code
  /\ config' = NoConfig
  /\ parsedSpecs' = EmptyMap
  /\ allEndpoints' = << >>
  /\ fuseEndpoints' = NoFuse
  /\ isRefreshing' = FALSE
  /\ refreshPromise' = 0
  /\ unresolved' = {}
  /\ started' = 0
  /\ pass' = [p \in PassIds |-> NoPass]
  /\ pendingChange' = 0
  /\ windowCalls' = 0
  /\ ingestSinceIdle' = 0
  /\ configWatcher' = FALSE
  /\ refreshTimer' = 0
  /\ timers' = {}
  /\ reader' = [r \in ReaderIds |-> NoReader]
  /\ finished' = NoFinished
  /\ parsedSpecsRef' = 0

\* a macrotask in which no pass ends and handleConfigChange is not called
NoPassEvent ==
  /\ finished' = NoFinished
  /\ windowCalls' = IF pendingChange = 0 THEN 0 ELSE windowCalls

\* ---- helpers of the handlers -------------------------------------------
\* the id the next execution of refreshSources / handleConfigChange gets
NewPass == started + 1

\* variant: the swap is taken whatever the pass returned
shouldPublishAlways(successCount) == TRUE

\* variant: the swap is taken only from the second success on
shouldPublishOffByOne(successCount) == successCount > 1

\* refreshSources / handleConfigChange: if (successCount > 0)
shouldPublish(successCount) == successCount > 0

\* variant: the new entries are set without parsedSpecs.clear()
swapWithoutClear(old, new) == MapSetAll(old, new)

\* parsedSpecs.clear(); newParsedSpecs.forEach((v, k) => parsedSpecs.set(k, v))
swapParsedSpecs(old, new) == MapSetAll(EmptyMap, new)

\* variant: only the first tool call suspended on promise p is resumed
resolveFirstOnly(rd, p) ==
  [r \in ReaderIds |->
     IF /\ rd[r].pc = "waiting"
        /\ rd[r].on = p
        /\ \A q \in ReaderIds : q < r => ~(rd[q].pc = "waiting" /\ rd[q].on = p)
     THEN [rd[r] EXCEPT !.pc = "released"]
     ELSE rd[r]]

\* variant: the finally block does not resolve the promise
resolveNone(rd, p) == rd

\* resolveRefresh(): every tool call suspended on promise p is queued to resume
resolveRefresh(rd, p) ==
  [r \in ReaderIds |->
     IF rd[r].pc = "waiting" /\ rd[r].on = p THEN [rd[r] EXCEPT !.pc = "released"]
     ELSE rd[r]]

\* variant: the configuration loaded is not assigned
configKeptOld(old, l) == old

\* variant: config is assigned before the null check
configAssignedFirst(old, l) == l.cfg

\* handleConfigChange: if (!newConfig) return; ... config = newConfig
configAfterLoad(old, l) == IF l.isNull THEN old ELSE l.cfg

\* waitForRefreshComplete: whether the caller suspends on refreshPromise
mustWait(flag, promise, pending) == flag /\ promise \in pending

\* variant: the interval held by refreshTimer is not cleared
clearedNone(ts, current) == ts

\* setupRefreshTimer: clearInterval(refreshTimer) when it is set ...
clearedTimers(ts, current) == { t \in ts : t.id # current }

\* variant: the period is taken from the configuration held before the reload
newTimerStalePeriod(ts, cfg) ==
  [id |-> CHOOSE n \in 1 .. Cardinality(ts) + 1 : \A t \in ts : t.id # n,
   period |-> config.refreshInterval * 1000]

\* ... and setInterval(refreshSources, config.refreshInterval * 1000)
newTimer(ts, cfg) ==
  [id |-> CHOOSE n \in 1 .. Cardinality(ts) + 1 : \A t \in ts : t.id # n,
   period |-> cfg.refreshInterval * 1000]

\* variant: the results are collected in the served Map instead of a new one
beginParseOnServedMap(cfg) ==
  [NoPass EXCEPT !.pc = "parsing", !.sources = cfg.sources, !.idx = 1,
                 !.newParsedSpecs = parsedSpecs]

\* the frame of a pass that enters parseAllSources: the for-of loop iterates
\* the array config.sources held when the loop began
beginParse(cfg) ==
  [NoPass EXCEPT !.pc = "parsing", !.sources = cfg.sources, !.idx = 1]

\* variant: an exception of the parser is caught but not counted
loopBodyMiscounts(f, rev, how) ==
  LET name == f.sources[f.idx]
      entry == sourceEntry(name, rev, how)
  IN [f EXCEPT !.idx = @ + 1,
               !.newParsedSpecs = MapSet(@, name, entry),
               !.successCount = @ + (IF entry.success THEN 1 ELSE 0),
               !.errorCount = @ + (IF entry.success \/ how = "threw" THEN 0 ELSE 1)]

\* variant: only a successful source gets an entry
loopBodySkipsFailures(f, rev, how) ==
  LET name == f.sources[f.idx]
      entry == sourceEntry(name, rev, how)
  IN [f EXCEPT !.idx = @ + 1,
               !.newParsedSpecs = IF entry.success THEN MapSet(@, name, entry) ELSE @,
               !.successCount = @ + (IF entry.success THEN 1 ELSE 0),
               !.errorCount = @ + (IF entry.success THEN 0 ELSE 1)]

\* one iteration of the for-of loop of parseAllSources, on frame f of pass
\* rev: the entry of the source is set and one of the two counters goes up
loopBody(f, rev, how) ==
  LET name == f.sources[f.idx]
      entry == sourceEntry(name, rev, how)
  IN [f EXCEPT !.idx = @ + 1,
               !.newParsedSpecs = MapSet(@, name, entry),
               !.successCount = @ + (IF entry.success THEN 1 ELSE 0),
               !.errorCount = @ + (IF entry.success THEN 0 ELSE 1)]

\* parseAllSources from frame f to its return, hows[i] being what
\* parser.parse delivers for the i-th source
RECURSIVE parseAllSources(_, _, _)
parseAllSources(f, rev, hows) ==
  IF f.idx > Len(f.sources)
  THEN [successCount |-> f.successCount, errorCount |-> f.errorCount,
        newParsedSpecs |-> f.newParsedSpecs]
  ELSE parseAllSources(loopBody(f, rev, hows[f.idx]), rev, hows)

\* variant: main() goes on whatever the first pass returned
startupFatalNever(successCount) == FALSE

\* main: if (successCount === 0) ... process.exit(1)
startupFatal(successCount) == successCount = 0

\* the frames once pass p has ended; overwritten notes, on every pass still
\* suspended, that the published state was replaced after that pass began
leavePass(ps, p, swapped) ==
  [q \in PassIds |->
     IF q = p THEN NoPass
     ELSE IF swapped /\ ps[q].pc = "parsing" THEN [ps[q] EXCEPT !.overwritten = TRUE]
     ELSE ps[q]]

endPass(p, sc, ec, outcome) ==
  [NoFinished EXCEPT !.id = p, !.successCount = sc, !.errorCount = ec,
                     !.outcome = outcome]

\* ---- main() ------------------------------------------------------------
\* loadConfig(); exit(1) on null, else the first parseAllSources begins
MainStart ==
  /\ phase = "init"
  /\ \E l \in loadConfig :
       IF l.isNull
       THEN Exited(1)
       ELSE /\ phase' = "starting"
            /\ config' = l.cfg
            /\ pass' = [pass EXCEPT ![0] = beginParse(l.cfg)]
            /\ NoPassEvent
            /\ UNCHANGED << exitCode, pubVars, lockVars, started, pendingChange,
                            ingestSinceIdle, configWatcher, timerVars, reader,
                            parsedSpecsRef >>
  /\ UNCHANGED probe

\* ---- parseAllSources ---------------------------------------------------
\* parser.parse returns for a source that is not the last: the loop goes on
ParseStep(p, how) ==
  /\ phase \in {"starting", "running"}
  /\ ~MicrotaskPending
  /\ pass[p].pc = "parsing"
  /\ pass[p].idx < Len(pass[p].sources)
  /\ pass' = [pass EXCEPT ![p] = loopBody(pass[p], p, how)]
  /\ NoPassEvent
  /\ UNCHANGED << procVars, config, pubVars, lockVars, started, pendingChange,
                  ingestSinceIdle, configWatcher, timerVars, reader,
                  parsedSpecsRef, probe >>

\* parser.parse returns for the last source in main(): exit(1) without a
\* success, else the first publication, the timer, the watcher and the tools
MainFinish(how) ==
  /\ phase = "starting"
  /\ pass[0].pc = "parsing"
  /\ pass[0].idx = Len(pass[0].sources)
  /\ LET f == loopBody(pass[0], 0, how)
         newParsedSpecs == f.newParsedSpecs
         sc == f.successCount
         ec == f.errorCount
         specs == MapSetAll(parsedSpecs, newParsedSpecs)
         index == createFuseIndex(specs, config)
         kept == clearedTimers(timers, refreshTimer)
     IN IF startupFatal(sc)
        THEN Exited(1)
        ELSE /\ phase' = "running"
             /\ parsedSpecs' = specs
             /\ allEndpoints' = index.endpoints
             /\ fuseEndpoints' = index.fuse
             /\ timers' = kept \cup {newTimer(kept, config)}
             /\ refreshTimer' = newTimer(kept, config).id
             /\ configWatcher' = TRUE
             /\ pass' = [pass EXCEPT ![0] = NoPass]
             /\ finished' = endPass(0, sc, ec, "published")
             /\ UNCHANGED << exitCode, config, lockVars, started, pendingChange,
                             windowCalls, ingestSinceIdle, reader, parsedSpecsRef >>
  /\ UNCHANGED probe

\* parser.parse returns for the last source in refreshSources or
\* handleConfigChange: the swap when a source succeeded, then the finally block
RefreshFinish(p, how) ==
  /\ phase = "running"
  /\ ~MicrotaskPending
  /\ p > 0
  /\ pass[p].pc = "parsing"
  /\ pass[p].idx = Len(pass[p].sources)
  /\ LET f == loopBody(pass[p], p, how)
         newParsedSpecs == f.newParsedSpecs
         sc == f.successCount
         ec == f.errorCount
         index == createFuseIndex(newParsedSpecs, config)
     IN /\ IF shouldPublish(sc)
           THEN /\ parsedSpecs' = swapParsedSpecs(parsedSpecs, newParsedSpecs)
                /\ allEndpoints' = index.endpoints
                /\ fuseEndpoints' = index.fuse
           ELSE UNCHANGED pubVars
        /\ finished' = endPass(p, sc, ec,
                               IF shouldPublish(sc) THEN "published" ELSE "retained")
  /\ pass' = leavePass(pass, p, pubVars' # pubVars)
  /\ isRefreshing' = FALSE
  /\ unresolved' = unresolved \ {p}
  /\ reader' = resolveRefresh(reader, p)
  /\ ingestSinceIdle' = 0
  /\ windowCalls' = IF pendingChange = 0 THEN 0 ELSE windowCalls
  /\ UNCHANGED << procVars, config, refreshPromise, started, pendingChange,
                  configWatcher, timerVars, parsedSpecsRef, probe >>

\* an exception reaches the try block of refreshSources or handleConfigChange
\* before the swap, raised in parseAllSources outside the try of a source or
\* in createFuseIndex: the catch block logs it, then the finally block
RefreshThrows(p) ==
  /\ phase = "running"
  /\ ~MicrotaskPending
  /\ p > 0
  /\ pass[p].pc = "parsing"
  /\ finished' = endPass(p, pass[p].successCount, pass[p].errorCount, "threw")
  /\ pass' = leavePass(pass, p, FALSE)
  /\ isRefreshing' = FALSE
  /\ unresolved' = unresolved \ {p}
  /\ reader' = resolveRefresh(reader, p)
  /\ ingestSinceIdle' = 0
  /\ windowCalls' = IF pendingChange = 0 THEN 0 ELSE windowCalls
  /\ UNCHANGED << procVars, config, pubVars, refreshPromise, started,
                  pendingChange, configWatcher, timerVars, parsedSpecsRef, probe >>

\* ---- refreshSources ----------------------------------------------------
\* the interval timer fires: the flag, a new promise, and parseAllSources
\* runs to its first await
TimerFire(t) ==
  /\ phase = "running"
  /\ ~MicrotaskPending
  /\ t \in timers
  /\ started < MaxPasses
  /\ started' = NewPass
  /\ isRefreshing' = TRUE
  /\ refreshPromise' = NewPass
  /\ unresolved' = unresolved \cup {NewPass}
  /\ pass' = [pass EXCEPT ![NewPass] = beginParse(config)]
  /\ ingestSinceIdle' = ingestSinceIdle + 1
  /\ NoPassEvent
  /\ UNCHANGED << procVars, config, pubVars, pendingChange, configWatcher,
                  timerVars, reader, parsedSpecsRef, probe >>

\* ---- setupConfigWatcher: the fs.watch callback -------------------------
\* a "change" event arms a 100 ms timeout of its own; other events do nothing
WatchEvent(eventType) ==
  /\ phase = "running"
  /\ ~MicrotaskPending
  /\ configWatcher
  /\ started + pendingChange < MaxPasses
  /\ pendingChange' = IF eventType = "change" THEN pendingChange + 1
                                              ELSE pendingChange
  /\ NoPassEvent
  /\ UNCHANGED << procVars, config, pubVars, lockVars, started, pass,
                  ingestSinceIdle, configWatcher, timerVars, reader,
                  parsedSpecsRef, probe >>

\* ---- handleConfigChange ------------------------------------------------
\* a timeout of the watcher runs: the flag, a new promise, loadConfig(); on
\* null the finally block at once, else the new config, the timer when the
\* interval differs, and parseAllSources runs to its first await
HandleConfigChange ==
  /\ phase = "running"
  /\ ~MicrotaskPending
  /\ pendingChange > 0
  /\ started < MaxPasses
  /\ started' = NewPass
  /\ pendingChange' = pendingChange - 1
  /\ windowCalls' = windowCalls + 1
  /\ refreshPromise' = NewPass
  /\ \E l \in loadConfig :
       IF l.isNull
       THEN /\ isRefreshing' = FALSE
            /\ unresolved' = unresolved \ {NewPass}
            /\ reader' = resolveRefresh(reader, NewPass)
            /\ finished' = [endPass(NewPass, 0, 0, "loadFailed")
                              EXCEPT !.error = l.error]
            /\ ingestSinceIdle' = 0
            /\ config' = configAfterLoad(config, l)
            /\ UNCHANGED << timerVars, pass >>
       ELSE /\ isRefreshing' = TRUE
            /\ unresolved' = unresolved \cup {NewPass}
            /\ config' = configAfterLoad(config, l)
            /\ IF config.refreshInterval # l.cfg.refreshInterval
               THEN LET kept == clearedTimers(timers, refreshTimer)
                    IN /\ timers' = kept \cup {newTimer(kept, l.cfg)}
                       /\ refreshTimer' = newTimer(kept, l.cfg).id
               ELSE UNCHANGED timerVars
            /\ pass' = [pass EXCEPT ![NewPass] = beginParse(configAfterLoad(config, l))]
            /\ ingestSinceIdle' = ingestSinceIdle + 1
            /\ finished' = [endPass(NewPass, 0, 0, "reloaded") EXCEPT
                              !.loaded = l.cfg,
                              !.oldRefreshInterval = config.refreshInterval]
            /\ UNCHANGED reader
  /\ UNCHANGED << procVars, pubVars, configWatcher, parsedSpecsRef, probe >>

\* ---- the tool handlers -------------------------------------------------
\* a tool call arrives: await waitForRefreshComplete(), then it reads the
\* published state; with no refresh flagged it reads in the same macrotask
ToolCall(r) ==
  /\ phase = "running"
  /\ ~MicrotaskPending
  /\ reader[r].pc = "idle"
  /\ \A q \in ReaderIds : q < r => reader[q].pc # "idle"
  /\ reader' = [reader EXCEPT ![r] =
       IF mustWait(isRefreshing, refreshPromise, unresolved)
       THEN [NoReader EXCEPT !.pc = "waiting", !.on = refreshPromise]
       ELSE [NoReader EXCEPT !.pc = "done", !.early = (InFlight # {}),
                             !.answer = Published]]
  /\ NoPassEvent
  /\ UNCHANGED << procVars, config, pubVars, lockVars, started, pass,
                  pendingChange, ingestSinceIdle, configWatcher, timerVars,
                  parsedSpecsRef, probe >>

\* the continuation of a tool call whose awaited promise was resolved
ToolResume(r) ==
  /\ phase = "running"
  /\ reader[r].pc = "released"
  /\ reader' = [reader EXCEPT ![r] =
       [@ EXCEPT !.pc = "done",
                 !.early = (\E p \in InFlight : p <= reader[r].on),
                 !.answer = Published]]
  /\ UNCHANGED << procVars, config, pubVars, lockVars, started, pass, finished,
                  pendingChange, windowCalls, ingestSinceIdle, configWatcher,
                  timerVars, parsedSpecsRef, probe >>

\* the handler returns its result to the transport
ToolReturn(r) ==
  /\ phase = "running"
  /\ reader[r].pc = "done"
  /\ reader' = [reader EXCEPT ![r] = NoReader]
  /\ UNCHANGED << procVars, config, pubVars, lockVars, started, pass, finished,
                  pendingChange, windowCalls, ingestSinceIdle, configWatcher,
                  timerVars, parsedSpecsRef, probe >>

\* ---- cleanup, on SIGINT / SIGTERM, then process.exit(0) ----------------
Shutdown ==
  /\ phase = "running"
  /\ ~MicrotaskPending
  /\ Exited(0)
  /\ UNCHANGED probe

\* ---- specification -----------------------------------------------------
Next ==
  \/ MainStart
  \/ \E how \in ParseOutcomes : MainFinish(how)
  \/ \E p \in PassIds, how \in ParseOutcomes : ParseStep(p, how)
  \/ \E p \in PassIds, how \in ParseOutcomes : RefreshFinish(p, how)
  \/ \E p \in PassIds : RefreshThrows(p)
  \/ \E t \in timers : TimerFire(t)
  \/ \E eventType \in {"change", "rename"} : WatchEvent(eventType)
  \/ HandleConfigChange
  \/ \E r \in ReaderIds : ToolCall(r)
  \/ \E r \in ReaderIds : ToolResume(r)
  \/ \E r \in ReaderIds : ToolReturn(r)
  \/ Shutdown

Spec == Init /\ [][Next]_vars

\* an I/O completion or a queued continuation that is ready is run by the
\* event loop: arriving tool calls and timers cannot starve it
ParserReturns ==
  \E how \in ParseOutcomes :
    \/ MainFinish(how)
    \/ \E p \in PassIds : ParseStep(p, how) \/ RefreshFinish(p, how)

ContinuationRuns == \E r \in ReaderIds : ToolResume(r) \/ ToolReturn(r)

Fairness == SF_vars(ParserReturns) /\ WF_vars(ContinuationRuns)

LiveSpec == Spec /\ Fairness

\* ---- the functions of the module, called directly ----------------------
\* parseAllSources and the tool handlers are functions of the configuration,
\* of what the parser delivers and of the request.  This specification calls
\* them on every source list validateConfig accepts (up to MaxSources
\* names), with every combination of parser outcomes, a thrown exception
\* included, and calls the handlers on every snapshot that can be published.
UnitNames == {"a", "b", "c"}

UnitHows == {"ok", "failed", "threw"}

UnitConfig(sources) ==
  [sources |-> sources, refreshInterval |-> 300, fuzzyThreshold |-> 6]

UnitSources ==
  { sources \in UNION { [1 .. n -> UnitNames] : n \in 1 .. MaxSources } :
      validateConfig(UnitConfig(sources)).ok }

Limits == (MinLimit .. MaxSmallLimit) \cup {MaxLimit}

\* config = UnitConfig(sources); await parseAllSources()
CallParseAllSources(sources, hows) ==
  /\ probe.op = "none"
  /\ probe' = [NoProbe EXCEPT
                 !.op = "parseAllSources",
                 !.sources = sources,
                 !.hows = hows,
                 !.result = parseAllSources(beginParse(UnitConfig(sources)), 0, hows)]
  /\ UNCHANGED serverVars

\* the snapshot the pass returned is published (it has a success) and
\* list_all_sources is called
CallListAllSources ==
  /\ probe.op = "parseAllSources"
  /\ probe.result.successCount > 0
  /\ probe' = [probe EXCEPT
                 !.op = "list_all_sources",
                 !.request = NoRequest,
                 !.response = list_all_sources(probe.result.newParsedSpecs,
                                               UnitConfig(probe.sources))]
  /\ UNCHANGED serverVars

\* the snapshot the pass returned is published and list_endpoints_for_source
\* is called with a request the input schema accepts
CallListEndpoints(name, limit, offset) ==
  /\ probe.op = "parseAllSources"
  /\ probe.result.successCount > 0
  /\ LET request == [name |-> name, limit |-> limit, offset |-> offset]
     IN probe' = [probe EXCEPT
                    !.op = "list_endpoints_for_source",
                    !.request = request,
                    !.response = list_endpoints_for_source(
                                   probe.result.newParsedSpecs, request),
                    !.pages = << list_endpoints_for_source(
                                   probe.result.newParsedSpecs, request) >>]
  /\ UNCHANGED serverVars

\* a client that began at offset 0 follows hasNext: the same name and limit
\* are requested at offset + limit, against the same snapshot; pages keeps
\* the results it got so far
CallNextPage ==
  /\ probe.op = "list_endpoints_for_source"
  /\ probe.pages[1].pagination.offset = 0
  /\ ~probe.response.isError
  /\ probe.response.pagination.hasNext
  /\ LET request == [probe.request EXCEPT !.offset = @ + probe.request.limit]
         response == list_endpoints_for_source(probe.result.newParsedSpecs, request)
     IN probe' = [probe EXCEPT !.request = request,
                               !.response = response,
                               !.pages = Append(@, response)]
  /\ UNCHANGED serverVars

\* the calls of parser.parse: a file source is not fetched, an http source
\* whose fetch threw is not validated
ParseCalls ==
  { [type |-> "file", fetch |-> NoFetch, validate |-> v] : v \in ValidateOutcomes }
  \cup { [type |-> "http", fetch |-> f, validate |-> NoValidate] :
           f \in { o \in AxiosOutcomes : fetchHttpContent(o).threw } }
  \cup { [type |-> "http", fetch |-> f, validate |-> v] :
           f \in { o \in AxiosOutcomes : ~fetchHttpContent(o).threw },
           v \in ValidateOutcomes }

\* parser.parse(source) with the given outcome of axios.get (for an http
\* source) and of SwaggerParser.validate
CallParse(source, fetch, validate) ==
  /\ probe.op = "none"
  /\ probe' = [NoProbe EXCEPT
                 !.op = "parse",
                 !.source = source,
                 !.fetch = fetch,
                 !.validate = validate,
                 !.parseResult = parseSource(source, fetch, validate)]
  /\ UNCHANGED serverVars

\* substituteEnvVars(input) with process.env = env
CallSubstituteEnvVars(input, env) ==
  /\ probe.op = "none"
  /\ probe' = [NoProbe EXCEPT
                 !.op = "substituteEnvVars",
                 !.input = input,
                 !.env = env,
                 !.output = substituteEnvVars(input, env)]
  /\ UNCHANGED serverVars

UnitNext ==
  \/ /\ probe.op = "none"
     /\ \/ \E sources \in UnitSources :
             \E hows \in [1 .. Len(sources) -> UnitHows] :
               CallParseAllSources(sources, hows)
        \/ \E c \in ParseCalls :
             CallParse([name |-> "a", type |-> c.type], c.fetch, c.validate)
        \/ \E input \in Inputs, env \in Envs : CallSubstituteEnvVars(input, env)
  \/ /\ probe.op = "parseAllSources"
     /\ \/ CallListAllSources
        \/ \E name \in UnitNames \cup {"zz"}, limit \in Limits, offset \in 0 .. MaxOffset :
             CallListEndpoints(name, limit, offset)
  \/ CallNextPage

UnitSpec == Init /\ [][UnitNext]_vars

\* ---- properties --------------------------------------------------------
\* the ingestion pass every entry of a snapshot and of an index comes from
Revs(a) == { a.specs[i].value.rev : i \in 1 .. Len(a.specs) }
             \cup { a.fuse.docs[i].rev : i \in 1 .. Len(a.fuse.docs) }
             \cup { a.endpoints[i].rev : i \in 1 .. Len(a.endpoints) }

\* C1: at most one refresh pass (refreshSources or handleConfigChange between
\* its start and its finally block) is in flight at any time
C1_SingleFlight == Cardinality(InFlight) <= 1

\* C2: between two Idle states of the coordinator at most one execution of
\* parseAllSources is begun, however many triggers arrive together
C2_OneIngestionPerRefresh == ingestSinceIdle <= 1

\* C3: the answer of a tool call is one published state in full: all entries
\* of its snapshot and of its index come from one and the same ingestion pass
C3_SnapshotAtomicity ==
  \A r \in ReaderIds :
    reader[r].pc = "done" =>
      /\ Cardinality(Revs(reader[r].answer)) = 1
      /\ reader[r].answer.fuse.docs = flatMapEndpoints(reader[r].answer.specs)

\* a tool call that blocked on a refresh answered from the state that refresh
\* published
C3_Witness ==
  \E r \in ReaderIds :
    /\ reader[r].pc = "done"
    /\ reader[r].on > 0
    /\ Revs(reader[r].answer) = {reader[r].on}

\* C4: a tool call never reads the published state while a pass that was in
\* progress when it arrived is still in progress
C4_QueryWaitsForRefresh ==
  \A r \in ReaderIds : reader[r].pc = "done" => ~reader[r].early

\* C5: when a refresh pass ends with zero successes the published state is
\* what it was when that pass began
C5_FailedPassKeepsState ==
  [][\A p \in PassIds :
       (p > 0 /\ pass[p].pc = "parsing" /\ finished'.id = p
          /\ finished'.successCount = 0)
       => (pubVars' = pubVars /\ ~pass[p].overwritten)]_vars

\* C6: a handleConfigChange whose loadConfig fails ends with isRefreshing
\* false and leaves config, the refresh timer and the published state as
\* they were
C6_FailedReloadKeepsAll ==
  [][(started' = started + 1 /\ finished'.outcome = "loadFailed")
       => /\ config' = config
          /\ timerVars' = timerVars
          /\ pubVars' = pubVars
          /\ isRefreshing' = FALSE]_vars

C6_Witness ==
  /\ finished.outcome = "loadFailed"
  /\ parsedSpecs # EmptyMap
  /\ config \in Configs

\* C7: a tool call that waited on a pass that ended, without an exception,
\* with at least one successful source reads, when it resumes, the state that pass published
C7_ReleasedSeeNewState ==
  \A r \in ReaderIds :
    (/\ reader[r].pc = "done"
     /\ reader[r].on > 0
     /\ finished.id = reader[r].on
     /\ finished.outcome # "threw"
     /\ finished.successCount > 0)
    => Revs(reader[r].answer) = {reader[r].on}

C7_Witness ==
  \E r \in ReaderIds :
    /\ reader[r].pc = "done"
    /\ reader[r].on > 0
    /\ finished.id = reader[r].on
    /\ finished.outcome # "threw"
    /\ finished.successCount > 0

\* C8: the tool calls suspended on one promise leave the wait in the same
\* step, all of them, and none waits on a promise that is resolved
C8_ReleasedTogether ==
  /\ [](\A r \in ReaderIds :
          reader[r].pc = "waiting" => reader[r].on \in unresolved)
  /\ [][\A r1, r2 \in ReaderIds :
          (/\ reader[r1].pc = "waiting"
           /\ reader[r2].pc = "waiting"
           /\ reader[r1].on = reader[r2].on)
          => (reader'[r1].pc = "waiting" <=> reader'[r2].pc = "waiting")]_vars

C8_Witness ==
  \E r1, r2 \in ReaderIds :
    /\ r1 # r2
    /\ reader[r1].pc = "released"
    /\ reader[r2].pc = "released"
    /\ reader[r1].on = reader[r2].on

\* C9: when every parser call returns, every pass ends, the flag is cleared
\* and every suspended tool call is resumed and reads (unless the process is
\* shut down first)
C9_Liveness ==
  /\ \A p \in PassIds : (pass[p].pc = "parsing") ~> (pass[p].pc = "none")
  /\ isRefreshing ~> ~isRefreshing
  /\ \A r \in ReaderIds :
       (reader[r].pc = "waiting") ~> (reader[r].pc = "done" \/ phase = "exited")

C9_Witness ==
  \E r \in ReaderIds :
    /\ reader[r].pc = "waiting"
    /\ Cardinality(InFlight) = 2

\* C10: the notifications of one burst (each arriving while the timeout of
\* an earlier one is pending) cause one call of handleConfigChange
C10_Debounce == windowCalls <= 1

\* the entries of snapshot m that are successes, and its failures
Successes(m) == { i \in 1 .. Len(m) : m[i].value.success }

Failures(m) == { i \in 1 .. Len(m) : ~m[i].value.success }

\* the sources of the probed call whose parse did not deliver a specification
Failed(pr) == { i \in 1 .. Len(pr.sources) : pr.hows[i] # "ok" }

\* the sum of the lengths of the documents fetched for the sources in set is
RECURSIVE EndpointsOf(_, _)
EndpointsOf(pr, is) ==
  IF is = {} THEN 0
  ELSE LET i == CHOOSE j \in is : TRUE
       IN Len(Doc(pr.sources[i], 0)) + EndpointsOf(pr, is \ {i})

\* C11: parseAllSources over N sources of which M fail (a failed result or an
\* exception) returns N entries, M failures and N - M successes, with
\* successCount = N - M and errorCount = M; the endpoints flattened from it
\* are as many as the endpoints of the successful sources
C11_FailureIsolation ==
  probe.op = "parseAllSources" =>
    LET N == Len(probe.sources)
        M == Cardinality(Failed(probe))
        snapshot == probe.result.newParsedSpecs
    IN /\ Len(snapshot) = N
       /\ Cardinality(Failures(snapshot)) = M
       /\ Cardinality(Successes(snapshot)) = N - M
       /\ probe.result.successCount = N - M
       /\ probe.result.errorCount = M
       /\ Len(createFuseIndex(snapshot, UnitConfig(probe.sources)).endpoints)
            = EndpointsOf(probe, (1 .. N) \ Failed(probe))

\* three sources: one throws, one fails, one parses
C11_Witness ==
  /\ probe.op = "parseAllSources"
  /\ Len(probe.sources) = 3
  /\ { probe.hows[i] : i \in 1 .. 3 } = UnitHows
  /\ probe.result.errorCount = 2

\* C12: the keys of the snapshot parseAllSources returns are the names of the
\* sources it iterated, one entry each
C12_OneEntryPerName ==
  probe.op = "parseAllSources" =>
    LET snapshot == probe.result.newParsedSpecs
    IN /\ MapKeys(snapshot) = { probe.sources[i] : i \in 1 .. Len(probe.sources) }
       /\ \A i, j \in 1 .. Len(snapshot) :
            snapshot[i].key = snapshot[j].key => i = j

C12_Witness ==
  /\ probe.op = "parseAllSources"
  /\ MapKeys(probe.result.newParsedSpecs) = UnitNames
  /\ probe.result.successCount = 0

\* C13: whenever tool calls can be served, allEndpoints and the documents of
\* the search index are the endpoints of the snapshot parsedSpecs holds,
\* whatever refreshes ran and overlapped before
C13_IndexMatchesSnapshot ==
  phase = "running" =>
    /\ allEndpoints = flatMapEndpoints(parsedSpecs)
    /\ fuseEndpoints.docs = flatMapEndpoints(parsedSpecs)
    /\ Cardinality(Revs(Published)) = 1

\* a pass published while another pass, begun before, was still parsing
C13_Witness ==
  /\ finished.outcome = "published"
  /\ finished.id > 0
  /\ \E p \in InFlight : pass[p].overwritten

\* C14: until the first pass has delivered a success there is no timer, no
\* watcher and no tool call; main() reaches the running state only with a
\* success, and leaves before that only by exit(1); a refresh or a reload
\* that fails leaves the server running, which exits only with status 0
C14_StartupFatal ==
  /\ [](phase \in {"init", "starting"} =>
          /\ timers = {}
          /\ refreshTimer = 0
          /\ ~configWatcher
          /\ \A r \in ReaderIds : reader[r].pc = "idle")
  /\ [][(phase = "init" /\ phase' = "starting") => config' \in Configs]_vars
  /\ [][(phase = "starting" /\ phase' = "running")
          => (finished'.id = 0 /\ finished'.successCount > 0)]_vars
  /\ [][(phase \in {"init", "starting"} /\ phase' = "exited") => exitCode' = 1]_vars
  /\ [][(phase = "running" /\ finished'.outcome \in {"retained", "loadFailed"})
          => (phase' = "running" /\ exitCode' = -1)]_vars
  /\ [][(phase = "running" /\ phase' = "exited") => exitCode' = 0]_vars

C14_Witness == phase = "exited" /\ exitCode = 1

C16_ThreeCases ==
  probe.op = "list_endpoints_for_source" =>
    LET snapshot == probe.result.newParsedSpecs
        name == probe.request.name
        held == { i \in 1 .. Len(snapshot) : snapshot[i].key = name }
        resp == probe.response
    IN /\ (held = {}) <=> (resp.isError /\ resp.error = "not found")
       /\ (held # {} /\ held \subseteq Failures(snapshot))
            <=> (resp.isError /\ resp.error = "failed to parse")
       /\ (held # {} /\ held \subseteq Successes(snapshot))
            <=> (~resp.isError /\ resp.error = "")
       /\ resp.isError => (resp.name = name /\ resp.endpoints = << >>
                            /\ resp.pagination = NoPagination)
       /\ resp.error = "failed to parse" =>
            \A i \in held : resp.detail = snapshot[i].value.errors[1].details

\* the name of a source whose parse threw was requested
C16_Witness ==
  /\ probe.op = "list_endpoints_for_source"
  /\ probe.response.error = "failed to parse"
  /\ probe.response.detail = "exception"

\* C17: for a source with a specification of total endpoints the page is the
\* endpoints at positions offset .. offset + limit - 1 of the document, in
\* document order, max(0, min(limit, total - offset)) of them, with
\* pagination total, limit, offset, hasNext = (offset + limit < total) and
\* hasPrevious = (offset > 0)
C17_Pagination ==
  (probe.op = "list_endpoints_for_source" /\ ~probe.response.isError) =>
    LET all == Doc(probe.request.name, 0)
        total == Len(all)
        limit == probe.request.limit
        offset == probe.request.offset
        rest == IF total - offset < limit THEN total - offset ELSE limit
        count == IF rest < 0 THEN 0 ELSE rest
        page == probe.response.endpoints
    IN /\ Len(page) = count
       /\ \A i \in 1 .. count : page[i] = all[offset + i]
       /\ probe.response.pagination =
            [total |-> total, limit |-> limit, offset |-> offset,
             hasNext |-> offset + limit < total, hasPrevious |-> offset > 0]

\* total = 7, limit = 3, offset = 3: three endpoints, a next and a previous page
C17_Witness ==
  /\ probe.op = "list_endpoints_for_source"
  /\ probe.response.pagination =
       [total |-> 7, limit |-> 3, offset |-> 3, hasNext |-> TRUE, hasPrevious |-> TRUE]
  /\ Len(probe.response.endpoints) = 3

\* C18: parseAllSources returns whatever the parser delivers: the entry of
\* every source is set, a success for a specification, else a failure whose
\* errors name that source only (code UNKNOWN and the message of the
\* exception when the parser threw), and the sources after it are processed
C18_ErrorsStayOnTheirSource ==
  probe.op = "parseAllSources" =>
    LET snapshot == probe.result.newParsedSpecs
    IN /\ probe.result.successCount + probe.result.errorCount = Len(probe.sources)
       /\ \A i \in 1 .. Len(probe.sources) :
            LET name == probe.sources[i]
            IN /\ MapHas(snapshot, name)
               /\ probe.hows[i] = "ok" =>
                    /\ MapGet(snapshot, name).success
                    /\ MapGet(snapshot, name).errors = << >>
                    /\ MapGet(snapshot, name).spec.endpoints = Doc(name, 0)
               /\ probe.hows[i] = "failed" =>
                    /\ ~MapGet(snapshot, name).success
                    /\ MapGet(snapshot, name).errors = parse(name, 0, "failed").errors
               /\ probe.hows[i] = "threw" =>
                    /\ ~MapGet(snapshot, name).success
                    /\ MapGet(snapshot, name).errors =
                         << [code |-> "UNKNOWN", details |-> "exception",
                             source |-> name] >>
               /\ \A k \in 1 .. Len(MapGet(snapshot, name).errors) :
                    MapGet(snapshot, name).errors[k].source = name

\* the parser threw for the first source and the two after it were parsed
C18_Witness ==
  /\ probe.op = "parseAllSources"
  /\ Len(probe.sources) = 3
  /\ probe.hows[1] = "threw"
  /\ probe.result.successCount = 2

\* the names of a source list are pairwise different
Distinct(sources) ==
  \A i, j \in 1 .. Len(sources) : sources[i] = sources[j] => i = j

\* C19: a configuration with a name that occurs twice is never loaded: the
\* configuration in use, the source list of every pass and the snapshot hold
\* every name once; a reload that finds such a file keeps the configuration
\* and the timer and begins no ingestion pass
C19_Uniqueness ==
  /\ [](/\ Distinct(config.sources)
        /\ \A p \in PassIds : Distinct(pass[p].sources)
        /\ \A i, j \in 1 .. Len(parsedSpecs) :
             parsedSpecs[i].key = parsedSpecs[j].key => i = j)
  /\ [][finished'.error = "duplicate"
          => (config' = config /\ pass' = pass /\ timerVars' = timerVars
              /\ pubVars' = pubVars)]_vars

\* a reload found a duplicate name and the configuration in use was kept
C19_Witness ==
  /\ finished.error = "duplicate"
  /\ config \in Configs

\* C20: a refresh that publishes makes parsedSpecs hold the Map the pass
\* built (a new object) and leaves the Map served before as it was
C20_SnapshotImmutable ==
  [][(phase = "running" /\ phase' = "running" /\ parsedSpecs' # parsedSpecs)
       => parsedSpecsRef' = finished'.id + 1]_vars

Names(sources) == { sources[i] : i \in 1 .. Len(sources) }

\* C22: a handleConfigChange that loads a configuration makes it the
\* configuration in use and begins a pass over exactly its sources, in its
\* order; a pass that publishes leaves in parsedSpecs exactly the names of
\* the sources it iterated
C22_ReloadParsesNewSources ==
  /\ [][finished'.outcome = "reloaded"
          => /\ config' = finished'.loaded
             /\ pass'[finished'.id].pc = "parsing"
             /\ pass'[finished'.id].sources = finished'.loaded.sources
             /\ pass'[finished'.id].newParsedSpecs = EmptyMap]_vars
  /\ [][\A p \in PassIds :
          (/\ p > 0
           /\ pass[p].pc = "parsing"
           /\ finished'.id = p
           /\ finished'.outcome = "published")
          => MapKeys(parsedSpecs') = Names(pass[p].sources)]_vars

\* a reload found a source list other than that of the snapshot served
C22_Witness ==
  /\ finished.outcome = "reloaded"
  /\ parsedSpecs # EmptyMap
  /\ Names(finished.loaded.sources) # MapKeys(parsedSpecs)

RECURSIVE TaggedFrom(_, _)
TaggedFrom(pr, i) ==
  IF i > Len(pr.sources) THEN << >>
  ELSE LET name == pr.sources[i]
           doc == Doc(name, 0)
           own == IF pr.hows[i] = "ok"
                  THEN [j \in 1 .. Len(doc) |->
                          [path |-> doc[j].path, method |-> doc[j].method,
                           rev |-> doc[j].rev, source_name |-> name]]
                  ELSE << >>
       IN own \o TaggedFrom(pr, i + 1)

\* C25: the endpoints handed to the search index are, source after source in
\* configuration order, the endpoints of every source that was parsed, in
\* document order and tagged with the name of that source; a source that
\* failed adds none
C25_Flattening ==
  probe.op = "parseAllSources" =>
    LET index == createFuseIndex(probe.result.newParsedSpecs,
                                 UnitConfig(probe.sources))
    IN /\ index.endpoints = TaggedFrom(probe, 1)
       /\ index.fuse.docs = TaggedFrom(probe, 1)

\* a failed source between two parsed ones
C25_Witness ==
  /\ probe.op = "parseAllSources"
  /\ Len(probe.sources) = 3
  /\ probe.hows = << "ok", "failed", "ok" >>
  /\ Len(flatMapEndpoints(probe.result.newParsedSpecs)) > 2

\* C26: from a served snapshot that holds a failed source next to a parsed
\* one, list_all_sources lists the parsed one and not the failed one,
\* list_endpoints_for_source answers "failed to parse" with the recorded
\* detail for the failed one and the endpoints for the parsed one, which are
\* also documents of the search index; a pass calls the parser once per
\* source, failed or not, and every pass begun iterates all configured sources
C26_PartialFailure ==
  /\ [](\A r \in ReaderIds :
          reader[r].pc = "done" =>
            LET snap == reader[r].answer.specs
                listed == list_all_sources(snap, config).sources
            IN \A i \in Failures(snap), j \in Successes(snap) :
                 LET bad == list_endpoints_for_source(snap,
                              [name |-> snap[i].key, limit |-> MaxLimit, offset |-> 0])
                     good == list_endpoints_for_source(snap,
                               [name |-> snap[j].key, limit |-> MaxLimit, offset |-> 0])
                 IN /\ \E k \in 1 .. Len(listed) : listed[k].name = snap[j].key
                    /\ \A k \in 1 .. Len(listed) : listed[k].name # snap[i].key
                    /\ bad.isError
                    /\ bad.error = "failed to parse"
                    /\ bad.detail = snap[i].value.errors[1].details
                    /\ ~good.isError
                    /\ good.endpoints = snap[j].value.spec.endpoints
                    /\ \A k \in 1 .. Len(good.endpoints) :
                         \E d \in 1 .. Len(reader[r].answer.fuse.docs) :
                           /\ reader[r].answer.fuse.docs[d].path = good.endpoints[k].path
                           /\ reader[r].answer.fuse.docs[d].source_name = snap[j].key)
  /\ [][\A p \in PassIds :
          /\ (pass[p].pc = "parsing" /\ pass'[p].pc = "parsing"
                 /\ pass'[p].idx # pass[p].idx)
              => (/\ pass'[p].idx = pass[p].idx + 1
                  /\ Len(pass'[p].newParsedSpecs) = pass[p].idx)
          /\ (pass[p].pc = "none" /\ pass'[p].pc = "parsing")
              => (pass'[p].sources = config'.sources /\ pass'[p].idx = 1)]_vars

\* a tool call answered from the snapshot of a refresh in which one source
\* failed and one was parsed
C26_Witness ==
  \E r \in ReaderIds :
    /\ reader[r].pc = "done"
    /\ reader[r].on > 0
    /\ Failures(reader[r].answer.specs) # {}
    /\ Successes(reader[r].answer.specs) # {}

\* the code createParseError is to give a thrown value, rule by rule
FirstMatch(error) ==
  CASE error.isError /\ includes(error.message, "ENOENT") -> "FILE_NOT_FOUND"
    [] error.isError /\ ~includes(error.message, "ENOENT")
         /\ includes(error.message, "Circular") -> "CIRCULAR_REFERENCE"
    [] error.isError /\ ~includes(error.message, "ENOENT")
         /\ ~includes(error.message, "Circular")
         /\ (includes(error.message, "Network") \/ includes(error.message, "HTTP"))
         -> "NETWORK_ERROR"
    [] error.isError
         /\ (\A m \in {"ENOENT", "Circular", "Network", "HTTP"} :
               ~includes(error.message, m))
         /\ (includes(error.message, "valid") \/ includes(error.message, "schema"))
         -> "INVALID_FORMAT"
    [] OTHER -> "UNKNOWN"

\* C27: a failed parse carries exactly one error, whose code is chosen by the
\* first rule its message matches (ENOENT, Circular, Network or HTTP, valid
\* or schema, else UNKNOWN, a non-Error value included); an http source that
\* got no response, or a response with status >= 400, is a NETWORK_ERROR
C27_Classification ==
  (probe.op = "parse" /\ ~probe.parseResult.success) =>
    /\ Len(probe.parseResult.errors) = 1
    /\ probe.parseResult.errors[1].code = FirstMatch(probe.parseResult.caught)
    /\ (/\ probe.source.type = "http"
        /\ \/ probe.fetch.kind = "request"
           \/ probe.fetch.kind = "response" /\ probe.fetch.status >= 400)
       => probe.parseResult.errors[1].code = "NETWORK_ERROR"

\* the matches of the placeholder pattern anywhere in the text
Placeholders(input) ==
  { m \in (1 .. Len(input)) \X (1 .. Len(input)) :
      /\ m[2] >= m[1] + 3
      /\ input[m[1]] = "$"
      /\ input[m[1] + 1] = "{"
      /\ input[m[2]] = "}"
      /\ \A k \in m[1] + 2 .. m[2] - 1 : input[k] # "}" }

\* the occurrences a single left-to-right pass finds: pairwise disjoint, and
\* every other match starts inside an occurrence that began before it
Occurrences(input) ==
  CHOOSE M \in SUBSET Placeholders(input) :
    /\ \A m, q \in M : m # q => (m[2] < q[1] \/ q[2] < m[1])
    /\ \A q \in Placeholders(input) \ M :
         \E m \in M : m[1] < q[1] /\ q[1] <= m[2]

\* what the text becomes when the occurrences whose name is set are replaced
\* by the value, and those whose name is unset by nothing (unsetAsEmpty) or
\* by themselves
Expansion(input, env, unsetAsEmpty) ==
  LET M == Occurrences(input)
      value(m) == processEnv(env, SubSeq(input, m[1] + 2, m[2] - 1))
      piece(p) ==
        IF \E m \in M : m[1] <= p /\ p <= m[2]
        THEN LET m == CHOOSE m \in M : m[1] <= p /\ p <= m[2] IN
             IF value(m).defined
             THEN IF p = m[1] THEN value(m).value ELSE << >>
             ELSE IF unsetAsEmpty THEN << >> ELSE << input[p] >>
        ELSE << input[p] >>
  IN Flatten([p \in 1 .. Len(input) |-> piece(p)])

\* C28: a placeholder whose variable is not set in the environment is
\* replaced by the empty string
C28_UnsetGivesEmpty ==
  probe.op = "substituteEnvVars" =>
    probe.output = Expansion(probe.input, probe.env, TRUE)

C30_FlagTracksCoordinator ==
  /\ isRefreshing <=> (\E p \in InFlight : p > 0)
  /\ (refreshPromise \in unresolved) <=> (\E p \in InFlight : p > 0)

\* C31: the published state never goes backwards: no step replaces entries
\* of the published state by entries of a pass that started earlier
C31_NeverBackwards ==
  [][\A old \in Revs(Published) : \A new \in Revs(Published') : new >= old]_vars

\* C32: the published snapshot and index come from one configuration: the
\* sources ingested and the threshold of the index are those of one of the
\* configurations loaded
C32_OneConfigurationGeneration ==
  phase = "running" =>
    \E c \in Configs :
      /\ MapKeys(parsedSpecs) = Names(c.sources)
      /\ fuseEndpoints.threshold = c.fuzzyThreshold

\* C33: with no refresh flagged or in flight after startup, the names in the
\* published snapshot are the names of the sources of the current configuration
C33_SnapshotMatchesConfig ==
  (phase = "running" /\ ~isRefreshing /\ InFlight = {}) =>
    MapKeys(parsedSpecs) = Names(config.sources)

\* C34: once the server runs, the published state, and every state a tool
\* call answers from, holds a source that parsed, so list_all_sources never
\* answers "No sources found"
C34_AlwaysASuccess ==
  /\ phase = "running" =>
       /\ Successes(parsedSpecs) # {}
       /\ ~list_all_sources(parsedSpecs, config).isError
  /\ \A r \in ReaderIds :
       reader[r].pc = "done" =>
         /\ Successes(reader[r].answer.specs) # {}
         /\ ~list_all_sources(reader[r].answer.specs, config).isError

\* a tool call answered after a refresh that found no source to parse and
\* after another that published a snapshot with a failed source
C34_Witness ==
  /\ started = MaxPasses
  /\ InFlight = {}
  /\ finished.outcome = "retained"
  /\ \E r \in ReaderIds :
       /\ reader[r].pc = "done"
       /\ Failures(reader[r].answer.specs) # {}
       /\ \E rev \in Revs(reader[r].answer) : rev > 0

\* C35: when a refresh throws before the swap, parsedSpecs, allEndpoints and
\* fuseEndpoints stay as they were, the process goes on running, isRefreshing
\* is false after the step, the promise of the refresh is resolved and every
\* tool call waiting on it is queued to resume
C35_ThrowKeepsState ==
  [][finished'.outcome = "threw"
       => /\ Published' = Published
          /\ phase' = "running"
          /\ exitCode' = -1
          /\ ~isRefreshing'
          /\ finished'.id \notin unresolved'
          /\ pass'[finished'.id] = NoPass
          /\ \A r \in ReaderIds :
               (reader[r].pc = "waiting" /\ reader[r].on = finished'.id)
                 => reader'[r].pc = "released"]_vars

\* a refresh has thrown after one of its sources had parsed, and a tool call
\* that waited on it was released
C35_Witness ==
  /\ finished.outcome = "threw"
  /\ finished.successCount > 0
  /\ \E r \in ReaderIds : reader[r].pc = "released" /\ reader[r].on = finished.id

C37_NothingBeforeFirstPublication ==
  /\ [](phase \in {"init", "starting"} =>
          /\ timers = {}
          /\ refreshTimer = 0
          /\ ~configWatcher
          /\ pendingChange = 0
          /\ started = 0
          /\ \A r \in ReaderIds : reader[r].pc = "idle")
  /\ [](\A r \in ReaderIds :
          reader[r].pc = "done" => reader[r].answer.fuse # NoFuse)
  /\ [][(timers = {} /\ timers' # {})
          => /\ phase' = "running"
             /\ configWatcher'
             /\ fuseEndpoints' # NoFuse
             /\ fuseEndpoints'.docs = allEndpoints'
             /\ Successes(parsedSpecs') # {}]_vars

\* the first tool call, answered from the state main() published
C37_Witness ==
  /\ started = 0
  /\ finished.id = -1
  /\ \E r \in ReaderIds :
       /\ reader[r].pc = "done"
       /\ Revs(reader[r].answer) = {0}

\* the endpoints of the pages got so far, one after the other
RECURSIVE Visited(_)
Visited(pages) ==
  IF pages = << >> THEN << >> ELSE Head(pages).endpoints \o Visited(Tail(pages))

\* ceil(total / limit)
CeilDiv(total, limit) == (total + limit - 1) \div limit

====
